---- MODULE Spec2Model ----
(***************************************************************************)
(* Table-rental timing and lamp synchronisation of the billiard/cafe POS.  *)
(*                                                                         *)
(* The repository holds two screen implementations that share one store:   *)
(*   app A  (src/unnamed/part_000): CheckoutModal.handleProcessPayment,    *)
(*          StopTableModal.handleConfirmStop, MoveTableModal.handleMove;   *)
(*   app B  (src/unnamed/part_001): handleCheckout (runTransaction) and    *)
(*          the inline "Stop & Matikan Lampu" handler.                     *)
(* Both carry the same snapshot listener and the same auto-stop interval.  *)
(*                                                                         *)
(* The store is the table collection (document per table).  A write is     *)
(* applied to the store when the handler issues it; the handler resumes    *)
(* after its await in a later step.  Every client holds a local listing    *)
(* (`tables`) that only the snapshot listener refreshes, so a handler may  *)
(* act on a listing that is older than the store.                          *)
(*                                                                         *)
(* Date.now() is `now`; a statement that calls it twice may see the clock  *)
(* advance by up to MaxSkew milliseconds between the two calls.  A cart    *)
(* holds one table item.  A store write succeeds, except in the actions    *)
(* of SpecFail that say which write is rejected.                           *)
(***************************************************************************)
EXTENDS Integers, Sequences, FiniteSets, TLC

\* ---------------------------------------------------------------- bounds
\* minutes a rental or a top-up may ask for: 1..MaxMinutes
MaxMinutes == 1
\* number of clock steps (of one minute each) a behaviour may take
MaxTicks == 1
\* rental operations (start, top-up, stop, move) a behaviour may take
MaxOps == 3
\* runs of one client's auto-stop callback with no other step in between
MaxRuns == 2
\* lamp commands counted per table between two status changes (saturating)
MaxCount == 2
\* milliseconds the clock may advance between two Date.now() calls of one statement
MaxSkew == 1
\* zero-based list positions handed to the channel resolver: 0..MaxPos
MaxPos == 3

\* -------------------------------------------------------- program constants
MsPerMinute == 60000
MsPerSecond == 1000
DefaultMinutes == 60
DefaultMoveMs == 3600000
DefaultCost == 20000
IntervalMs == 15000

\* Date.now() when the first client connects
StartClock == MsPerMinute
MaxClock == StartClock + MaxTicks * MsPerMinute

ClientsA == {"a1"}
ClientsB == {"b1"}
Clients == ClientsA \cup ClientsB
TableIds == {"table-1", "table-2"}
\* the id handleAddTable gives the table it creates: `table-${Date.now()}`
AddedTableId == "table-added"
AllTableIds == TableIds \cup {AddedTableId}
Customers == {"Ani"}
Minutes == 1..MaxMinutes
\* what the HTTP request of a lamp command can end in
FetchOutcomes == {"ok", "http_error", "timeout", "network_error"}

VARIABLES
  store,        \* table id -> stored document (a record; a deleted field is not in its domain)
  now,          \* Date.now()
  tables,       \* client -> local listing (React state `tables`)
  prevTables,   \* client -> listing of the previous snapshot (`prevTables` of the listener)
  modal,        \* client -> open modal of app A and the table object it captured
  run,          \* client -> the handler suspended at an await, with its locals and the
                \* tables it has written so far
  report,       \* client -> what the handler that finished in the latest step reported
  issued,       \* lamp commands issued by the latest step, in order
  cmdCount,     \* table id -> lamp commands issued for it since its status last changed
  lastExpiry,   \* the client whose auto-stop callback ran in the latest steps, and how
                \* many times in succession; NoExpiry after any other step
  ops,          \* rental operations started so far
  counting,     \* whether cmdCount is kept in this behaviour
  timer         \* client -> how far the period of its auto-stop interval has run since
                \* the interval was created: "created", "half", "due"; "untracked" in
                \* the behaviours that let the callback run at any time

vars == <<store, now, tables, prevTables, modal, run, report, issued, cmdCount, lastExpiry, ops, counting, timer>>

\* ------------------------------------------------------------ documents
Has(d, f) == f \in DOMAIN d
\* JavaScript `d.f || dflt` for a numeric field
NumOr(d, f, dflt) == IF Has(d, f) /\ d[f] # 0 THEN d[f] ELSE dflt
\* JavaScript `d.f || dflt` for a string field
StrOr(d, f, dflt) == IF Has(d, f) /\ d[f] # "" THEN d[f] ELSE dflt
\* JavaScript truthiness of a numeric field
Truthy(d, f) == Has(d, f) /\ d[f] # 0
StatusOf(d) == IF Has(d, "status") THEN d.status ELSE "undefined"

\* updateDoc / setDoc(..., {merge: true}): the given fields replace, the others stay
Merge(d, data) ==
  [f \in (DOMAIN d) \cup (DOMAIN data) |-> IF f \in DOMAIN data THEN data[f] ELSE d[f]]
\* deleteField() for every field of F
DeleteFields(d, F) == [f \in (DOMAIN d) \ F |-> d[f]]

\* ------------------------------------------------------------ names
Digits == <<"0", "1", "2", "3", "4", "5", "6", "7", "8", "9">>
IsDigit(ch) == \E i \in 1..10 : Digits[i] = ch
DigitVal(ch) == (CHOOSE i \in 1..10 : Digits[i] = ch) - 1

RECURSIVE ParseDec(_, _, _)
\* Number("...") of the digits s[i..j]
ParseDec(s, i, j) == IF j < i THEN 0 ELSE ParseDec(s, i, j - 1) * 10 + DigitVal(s[j])

\* the characters of the table names in use (a name is kept as a string in the
\* documents and spelled out here for the digit scan)
Chars(tableName) ==
  CASE tableName = "Meja 1"   -> <<"M", "e", "j", "a", " ", "1">>
    [] tableName = "Meja 2"   -> <<"M", "e", "j", "a", " ", "2">>
    [] tableName = ""         -> << >>
    [] tableName = "Meja 3"   -> <<"M", "e", "j", "a", " ", "3">>
    [] tableName = "Meja 0"   -> <<"M", "e", "j", "a", " ", "0">>
    [] tableName = "Meja 10"  -> <<"M", "e", "j", "a", " ", "1", "0">>
    [] tableName = "VIP Room" -> <<"V", "I", "P", " ", "R", "o", "o", "m">>
    [] tableName = "A12B7"    -> <<"A", "1", "2", "B", "7">>
    [] tableName = "7up"      -> <<"7", "u", "p">>
    [] tableName = "VIP 1"    -> <<"V", "I", "P", " ", "1">>

\* the names a table can be given in handleAddTable that the resolver is tried
\* on; "" also stands for an absent name
Names == {"", "Meja 1", "Meja 2", "Meja 3", "Meja 0", "Meja 10", "VIP Room", "A12B7", "7up"}
Positions == 0..MaxPos

\* the resolver with /(\d)/ in place of /(\d+)/: the first digit alone
deriveTableNumberFirstDigit(tableName, index) ==
  LET s == Chars(tableName)
  IN IF tableName = "" THEN index + 1
     ELSE IF \E i \in 1..Len(s) : IsDigit(s[i])
          THEN LET first == CHOOSE i \in 1..Len(s) :
                              /\ IsDigit(s[i])
                              /\ \A k \in 1..(i - 1) : ~IsDigit(s[k])
               IN ParseDec(s, first, first)
          ELSE index + 1

\* tableName.match(/(\d+)/): first maximal run of digits; index + 1 without one.
\* An absent name and the empty name are both falsy and are both "" here.
deriveTableNumber(tableName, index) ==
  LET s == Chars(tableName)
  IN IF tableName = "" THEN index + 1
     ELSE IF \E i \in 1..Len(s) : IsDigit(s[i])
          THEN LET first == CHOOSE i \in 1..Len(s) :
                              /\ IsDigit(s[i])
                              /\ \A k \in 1..(i - 1) : ~IsDigit(s[k])
                   last  == CHOOSE j \in first..Len(s) :
                              /\ \A k \in first..j : IsDigit(s[k])
                              /\ (j = Len(s) \/ ~IsDigit(s[j + 1]))
               IN ParseDec(s, first, last)
          ELSE index + 1

NameOf(d) == IF Has(d, "name") THEN d.name ELSE ""

\* ------------------------------------------------------------ listings
\* orderBy('name'): the documents that exist, in name order, each with its id.
\* The default tables are "Meja 1" and "Meja 2"; an added table is given a name
\* that sorts after them (AddedNames).
TableOrder == <<"table-1", "table-2", AddedTableId>>
WithId(id, d) == Merge(d, [id |-> id])
Listing(st) ==
  LET ids == SelectSeq(TableOrder, LAMBDA id : id \in DOMAIN st)
  IN [i \in 1..Len(ids) |-> WithId(ids[i], st[ids[i]])]

\* Array.prototype.findIndex, zero-based, -1 when absent
FindIndex(list, id) ==
  IF \E i \in 1..Len(list) : list[i].id = id
  THEN (CHOOSE i \in 1..Len(list) : list[i].id = id /\ \A k \in 1..(i - 1) : list[k].id # id) - 1
  ELSE -1
InList(list, id) == FindIndex(list, id) >= 0
\* Array.prototype.find for an id that is present
Find(list, id) == list[FindIndex(list, id) + 1]

\* ------------------------------------------------------------ lamp client
\* Math.ceil(x / 1000) for x >= 0
CeilSeconds(x) == (x + MsPerSecond - 1) \div MsPerSecond
\* a remaining time that rounds down: Math.floor in place of Math.ceil
RemainingSecondsFloor(d, clock) ==
  IF Truthy(d, "endTime")
  THEN (IF d.endTime - clock > 0 THEN (d.endTime - clock) \div MsPerSecond ELSE 0)
  ELSE -1

\* t.endTime ? Math.max(0, Math.ceil((t.endTime - Date.now()) / 1000)) : undefined ; -1 is undefined
RemainingSeconds(d, clock) ==
  IF Truthy(d, "endTime")
  THEN (IF d.endTime - clock > 0 THEN CeilSeconds(d.endTime - clock) ELSE 0)
  ELSE -1

\* what `await fetch(url, {signal})` settles with: a response, or a rejection
\* with the error's name and its String(err)
Fetch(outcome) ==
  CASE outcome = "ok"            -> [settled |-> "fulfilled", ok |-> TRUE,  status |-> 200]
    [] outcome = "http_error"    -> [settled |-> "fulfilled", ok |-> FALSE, status |-> 500]
    [] outcome = "timeout"       -> [settled |-> "rejected", name |-> "AbortError",
                                     string |-> "AbortError: The user aborted a request."]
    [] outcome = "network_error" -> [settled |-> "rejected", name |-> "TypeError",
                                     string |-> "TypeError: Failed to fetch"]

\* a lamp client without its catch block: a rejected fetch leaves the function
\* as an exception
LampResultNoCatch(outcome) ==
  LET res == Fetch(outcome)
  IN IF res.settled = "fulfilled"
     THEN [ok |-> res.ok, status |-> res.status]
     ELSE [raised |-> res.string]

\* the value controlLamp returns for an outcome of its fetch (the response text
\* is left out): try { return {ok: res.ok, status: res.status} }
\* catch (err) { return {ok: false, error: AbortError ? 'timeout' : String(err)} }
LampResult(outcome) ==
  LET res == Fetch(outcome)
  IN IF res.settled = "fulfilled"
     THEN [ok |-> res.ok, status |-> res.status]
     ELSE [ok |-> FALSE,
           error |-> IF res.name = "AbortError" THEN "timeout" ELSE res.string]

\* a request builder that appends the duration whenever one is passed, zero included
TABLE_LAMP_URL_AnyDuration(num, action, durationSec) ==
  [num |-> num, action |-> action, duration |-> durationSec]

\* TABLE_LAMP_URL: the request of controlLamp(num, action, durationSec)
TABLE_LAMP_URL(num, action, durationSec) ==
  [num |-> num, action |-> action, duration |-> IF durationSec > 0 THEN durationSec ELSE -1]

\* one issued lamp command: who sent it for which table, the request, and its result
controlLamp(client, src, tid, num, action, durationSec, outcome) ==
  [client |-> client, src |-> src, table |-> tid,
   url |-> TABLE_LAMP_URL(num, action, durationSec), result |-> LampResult(outcome)]

\* the explicit endpoint of a table for an action, "" without one
ExplicitUrl(table, action) ==
  CASE action = "on"     -> StrOr(table, "remoteOn", "")
    [] action = "off"    -> StrOr(table, "remoteOff", "")
    [] action = "toggle" -> StrOr(table, "remoteToggle", "")

\* controlLampForTable: the explicit endpoint when there is one, else the channel
\* derived from the name with index 0
controlLampForTable(client, src, table, action, durationSec, outcome) ==
  IF ExplicitUrl(table, action) # ""
  THEN [client |-> client, src |-> src, table |-> table.id,
        url |-> [href |-> ExplicitUrl(table, action), action |-> action,
                 duration |-> IF durationSec > 0 THEN durationSec ELSE -1],
        result |-> LampResult(outcome)]
  ELSE controlLamp(client, src, table.id, deriveTableNumber(NameOf(table), 0),
                   action, durationSec, outcome)

RECURSIVE CountAll(_, _, _)
\* cnt after the commands of cmds that announce the stored status of their table
\* (on for occupied, off for available), saturating at MaxCount
CountAll(cnt, st2, cmds) ==
  IF cmds = << >> THEN cnt
  ELSE LET c == Head(cmds)
           match == \/ c.url.action = "on" /\ StatusOf(st2[c.table]) = "occupied"
                    \/ c.url.action = "off" /\ StatusOf(st2[c.table]) = "available"
       IN CountAll([cnt EXCEPT ![c.table] = IF match /\ @ < MaxCount THEN @ + 1 ELSE @],
                   st2, Tail(cmds))

\* cmdCount after a step: a table whose stored status changed starts again at 0
Recount(st2, cmds) ==
  IF ~counting THEN cmdCount ELSE
  CountAll([t \in TableIds |-> IF StatusOf(st2[t]) # StatusOf(store[t]) THEN 0 ELSE cmdCount[t]],
           st2, cmds)

\* ------------------------------------------------------------ initial state
\* initializeStore: the default tables of a new store
InitDoc(i) ==
  [name |-> IF i = 1 THEN "Meja 1" ELSE "Meja 2", status |-> "available",
   costPerHour |-> DefaultCost, remoteUrl |-> ""]

NoReport == [c \in Clients |-> "none"]
NoExpiry == [client |-> "none", runs |-> 0]
NoTable == [id |-> ""]
Idle == [op |-> "idle"]

InitState(count, tm) ==
  /\ counting = count
  /\ timer = tm
  /\ store = [t \in TableIds |-> IF t = "table-1" THEN InitDoc(1) ELSE InitDoc(2)]
  /\ now = StartClock
  /\ tables = [c \in Clients |-> << >>]
  /\ prevTables = [c \in Clients |-> << >>]
  /\ modal = [c \in Clients |-> [kind |-> "none", table |-> NoTable]]
  /\ run = [c \in Clients |-> Idle]
  /\ report = NoReport
  /\ issued = << >>
  /\ cmdCount = [t \in TableIds |-> 0]
  /\ lastExpiry = NoExpiry
  /\ ops = 0

InitWith(count) == InitState(count, [c \in Clients |-> "untracked"])

Init == InitWith(FALSE)

\* no modal open and no handler suspended: the user of client c can click
Free(c) == modal[c].kind = "none" /\ run[c].op = "idle"

\* ------------------------------------------------------------ clock
Tick ==
  /\ now + MsPerMinute <= MaxClock
  /\ now' = now + MsPerMinute
  /\ issued' = << >>
  /\ lastExpiry' = NoExpiry
  /\ report' = NoReport
  /\ UNCHANGED <<store, tables, prevTables, modal, run, cmdCount, ops, counting, timer>>

\* ------------------------------------------------------------ snapshot listener
\* a command whose promise the caller drops without looking at its value:
\* controlLamp(...).catch(...) with nothing awaited
Dropped(cmd) == [f \in (DOMAIN cmd) \ {"result"} |-> cmd[f]]

\* a listener that looks only at the new listing: on for every occupied table,
\* off for every other table it has seen before
ListenerCmdNoDiff(c, prev, t, i, clock) ==
  LET num == deriveTableNumber(NameOf(t), i - 1)
      on  == Dropped(controlLamp(c, "listener", t.id, num, "on", RemainingSeconds(t, clock), "ok"))
      off == Dropped(controlLamp(c, "listener", t.id, num, "off", -1, "ok"))
  IN IF StatusOf(t) = "occupied" THEN <<on>>
     ELSE IF InList(prev, t.id) THEN <<off>> ELSE << >>

\* the commands the listener issues for the table at position i (1-based) of latest
ListenerCmd(c, prev, t, i, clock) ==
  LET num == deriveTableNumber(NameOf(t), i - 1)
      on  == Dropped(controlLamp(c, "listener", t.id, num, "on", RemainingSeconds(t, clock), "ok"))
      off == Dropped(controlLamp(c, "listener", t.id, num, "off", -1, "ok"))
  IN IF ~InList(prev, t.id)
     THEN (IF StatusOf(t) = "occupied" THEN <<on>> ELSE << >>)
     ELSE LET p == Find(prev, t.id)
          IN IF StatusOf(p) # StatusOf(t)
             THEN (IF StatusOf(p) # "occupied" /\ StatusOf(t) = "occupied" THEN <<on>>
                   ELSE IF StatusOf(p) = "occupied" /\ StatusOf(t) # "occupied" THEN <<off>>
                   ELSE << >>)
             ELSE << >>

RECURSIVE ListenerCmds(_, _, _, _, _)
\* the commands for positions 1..n of latest, in the order of the loop
ListenerCmds(c, prev, latest, n, clock) ==
  IF n = 0 THEN << >>
  ELSE ListenerCmds(c, prev, latest, n - 1, clock) \o ListenerCmd(c, prev, latest[n], n, clock)

\* onSnapshot callback of the tables query: the store's listing reaches client c.
\* setTables(latest) re-runs the auto-stop effect, whose cleanup clears the
\* interval and whose body creates a new one.
Snapshot(c) ==
  /\ tables[c] # Listing(store)
  /\ LET latest == Listing(store)
         cmds   == ListenerCmds(c, prevTables[c], latest, Len(latest), now)
     IN /\ issued' = cmds
        /\ cmdCount' = Recount(store, cmds)
        /\ prevTables' = [prevTables EXCEPT ![c] = latest]
        /\ tables' = [tables EXCEPT ![c] = latest]
  /\ timer' = [timer EXCEPT ![c] = IF @ = "untracked" THEN @ ELSE "created"]
  /\ lastExpiry' = NoExpiry
  /\ report' = NoReport
  /\ UNCHANGED <<store, now, modal, run, ops, counting>>

\* ------------------------------------------------------------ auto-stop interval
\* the condition of the interval callback on a table of the local listing
Expired(t, clock) == StatusOf(t) = "occupied" /\ Truthy(t, "endTime") /\ clock >= t.endTime

\* a stop that flips the status and leaves the timing fields where they are
StopUpdateStatusOnly(d) == Merge(d, [status |-> "available"])

\* the update of the auto-stop (and of the inline stop of app B)
StopUpdate(d) ==
  Merge(DeleteFields(d, {"startTime", "endTime", "currentCustomer"}),
        [status |-> "available", duration |-> 0])

\* the store after one run of the interval callback over the listing view
AutoStop(view, clock, st) ==
  [t \in DOMAIN st |->
     IF InList(view, t) /\ Expired(Find(view, t), clock) THEN StopUpdate(st[t]) ELSE st[t]]

\* setInterval callback of client c.  A run in which no table of the listing
\* qualifies writes nothing; only runs that write are steps.
ExpiryTick(c) ==
  /\ \E i \in 1..Len(tables[c]) : Expired(tables[c][i], now)
  /\ lastExpiry.client = c => lastExpiry.runs < MaxRuns
  /\ store' = AutoStop(tables[c], now, store)
  /\ issued' = << >>
  /\ cmdCount' = Recount(store', << >>)
  /\ lastExpiry' = [client |-> c, runs |-> IF lastExpiry.client = c THEN lastExpiry.runs + 1 ELSE 1]
  /\ report' = NoReport
  /\ UNCHANGED <<now, tables, prevTables, modal, run, ops, counting, timer>>

\* ------------------------------------------------------------ app B (part_001)
\* transaction.update of handleCheckout for one table item of d minutes
CheckoutUpdateB(tData, d, cust, clock) ==
  [status |-> "occupied",
   startTime |-> IF StatusOf(tData) = "available" THEN clock ELSE tData.startTime,
   endTime |-> IF StatusOf(tData) = "occupied" /\ Truthy(tData, "endTime")
               THEN tData.endTime + d * MsPerMinute
               ELSE clock + d * MsPerMinute,
   duration |-> NumOr(tData, "duration", 0) + d,
   currentCustomer |-> cust]

\* handleCheckout with a cart of one table item: the transaction reads the stored
\* document and updates it atomically; the handler issues no lamp command
B_Checkout(c, t, d, cust) ==
  /\ c \in ClientsB /\ Free(c)
  /\ InList(tables[c], t)
  /\ StatusOf(store[t]) = "available" \/ Has(store[t], "startTime")
  /\ store' = [store EXCEPT ![t] = Merge(@, CheckoutUpdateB(@, d, cust, now))]
  /\ report' = [NoReport EXCEPT ![c] = "success"]
  /\ issued' = << >>
  /\ cmdCount' = Recount(store', << >>)
  /\ lastExpiry' = NoExpiry
  /\ ops < MaxOps /\ ops' = ops + 1
  /\ UNCHANGED <<counting, timer, now, tables, prevTables, modal, run>>

\* onClick of "Stop & Matikan Lampu" up to its await: the button is rendered for a
\* table that the local listing shows occupied
B_StopWrite(c, t) ==
  /\ c \in ClientsB /\ Free(c)
  /\ InList(tables[c], t) /\ StatusOf(Find(tables[c], t)) = "occupied"
  /\ store' = [store EXCEPT ![t] = StopUpdate(@)]
  /\ run' = [run EXCEPT ![c] = [op |-> "b_stop", table |-> Find(tables[c], t), written |-> {t}]]
  /\ issued' = << >>
  /\ cmdCount' = Recount(store', << >>)
  /\ lastExpiry' = NoExpiry
  /\ report' = NoReport
  /\ ops < MaxOps /\ ops' = ops + 1
  /\ UNCHANGED <<counting, timer, now, tables, prevTables, modal>>

\* the rest of that onClick: controlLampForTable(table, 'off'), not awaited
B_StopLamp(c) ==
  /\ run[c].op = "b_stop"
  /\ \E o \in FetchOutcomes :
       /\ issued' = <<controlLampForTable(c, "handler", run[c].table, "off", -1, o)>>
       /\ cmdCount' = Recount(store, issued')
  /\ run' = [run EXCEPT ![c] = Idle]
  /\ report' = [NoReport EXCEPT ![c] = "success"]
  /\ lastExpiry' = NoExpiry
  /\ UNCHANGED <<store, now, tables, prevTables, modal, ops, counting, timer>>

\* ------------------------------------------------------------ app A (part_000)
\* onStop / onMove of a TableCard: the buttons exist on a card that shows occupied;
\* the modal keeps the table object of that render
A_OpenModal(c, kind, t) ==
  /\ c \in ClientsA /\ Free(c)
  /\ ops < MaxOps
  /\ InList(tables[c], t) /\ StatusOf(Find(tables[c], t)) = "occupied"
  /\ modal' = [modal EXCEPT ![c] = [kind |-> kind, table |-> Find(tables[c], t)]]
  /\ issued' = << >>
  /\ lastExpiry' = NoExpiry
  /\ report' = NoReport
  /\ UNCHANGED <<store, now, tables, prevTables, run, cmdCount, ops, counting, timer>>

\* onClose of a modal whose handler is not running
A_CloseModal(c) ==
  /\ modal[c].kind # "none" /\ run[c].op = "idle"
  /\ modal' = [modal EXCEPT ![c] = [kind |-> "none", table |-> NoTable]]
  /\ issued' = << >>
  /\ lastExpiry' = NoExpiry
  /\ report' = NoReport
  /\ UNCHANGED <<store, now, tables, prevTables, run, cmdCount, ops, counting, timer>>

\* the reset of handleConfirmStop and of step 2 of handleMove
ResetData == [status |-> "available", startTime |-> 0, endTime |-> 0,
              currentCustomer |-> "", duration |-> 0]

\* StopTableModal.handleConfirmStop.  The lamp block reads `tables`, which is not
\* bound in StopTableModal: it throws a ReferenceError inside its own try, so the
\* handler issues no lamp command and goes on to onClose.
A_ConfirmStop(c) ==
  /\ modal[c].kind = "stop" /\ run[c].op = "idle"
  /\ store' = [store EXCEPT ![modal[c].table.id] = Merge(@, ResetData)]
  /\ modal' = [modal EXCEPT ![c] = [kind |-> "none", table |-> NoTable]]
  /\ report' = [NoReport EXCEPT ![c] = "success"]
  /\ issued' = << >>
  /\ cmdCount' = Recount(store', << >>)
  /\ lastExpiry' = NoExpiry
  /\ ops < MaxOps /\ ops' = ops + 1
  /\ UNCHANGED <<counting, timer, now, tables, prevTables, run>>

\* a Move that copies the whole captured table object to the destination
MoveDataWholeRecord(fromTable, clock) == Merge(fromTable, [status |-> "occupied"])

\* moveData of handleMove, from the table object the modal captured.  The two
\* Date.now() defaults are taken at one clock value: they apply only to a captured
\* table without startTime or endTime, and every occupied table has both.
MoveData(fromTable, clock) ==
  [status |-> "occupied",
   startTime |-> NumOr(fromTable, "startTime", clock),
   endTime |-> NumOr(fromTable, "endTime", clock + DefaultMoveMs),
   duration |-> NumOr(fromTable, "duration", DefaultMinutes),
   currentCustomer |-> StrOr(fromTable, "currentCustomer", "Pelanggan")]

\* idx >= 0 ? idx : 0
IndexOrZero(list, id) == IF FindIndex(list, id) >= 0 THEN FindIndex(list, id) ELSE 0

\* fromNum and toNum of handleMove: they depend only on fromTable and on the
\* `tables` of the render the click happened in
MoveFromNum(fromTable, list) ==
  deriveTableNumber(NameOf(fromTable), IndexOrZero(list, fromTable.id))
MoveToNum(to, list) ==
  deriveTableNumber(IF InList(list, to) THEN NameOf(Find(list, to)) ELSE "",
                    IndexOrZero(list, to))

\* the ids handleMove can be called with: the buttons of availableTables
MoveTargets(c) ==
  {t \in AllTableIds : InList(tables[c], t) /\ StatusOf(Find(tables[c], t)) = "available"}

\* handleMove with the two writes in the other order: the origin is reset
\* first, the destination is written by the next step
A_MoveStartResetFirst(c, to) ==
  /\ modal[c].kind = "move" /\ run[c].op = "idle"
  /\ to \in MoveTargets(c)
  /\ LET moveData == MoveData(modal[c].table, now)
     IN /\ store' = [store EXCEPT ![modal[c].table.id] = Merge(@, ResetData)]
        /\ run' = [run EXCEPT ![c] =
                   [op |-> "move", pc |-> "reset", to |-> to, moveData |-> moveData,
                    written |-> {modal[c].table.id},
                    fromNum |-> MoveFromNum(modal[c].table, tables[c]),
                    toNum |-> MoveToNum(to, tables[c])]]
  /\ issued' = << >>
  /\ cmdCount' = Recount(store', << >>)
  /\ lastExpiry' = NoExpiry
  /\ report' = NoReport
  /\ ops < MaxOps /\ ops' = ops + 1
  /\ UNCHANGED <<counting, timer, now, tables, prevTables, modal>>

\* handleMove up to its first await: write the destination
A_MoveStart(c, to) ==
  /\ modal[c].kind = "move" /\ run[c].op = "idle"
  /\ to \in MoveTargets(c)
  /\ LET moveData == MoveData(modal[c].table, now)
     IN /\ store' = [store EXCEPT ![to] = Merge(@, moveData)]
        /\ run' = [run EXCEPT ![c] =
                   [op |-> "move", pc |-> "reset", to |-> to, moveData |-> moveData, written |-> {to},
                    fromNum |-> MoveFromNum(modal[c].table, tables[c]),
                    toNum |-> MoveToNum(to, tables[c])]]
  /\ issued' = << >>
  /\ cmdCount' = Recount(store', << >>)
  /\ lastExpiry' = NoExpiry
  /\ report' = NoReport
  /\ ops < MaxOps /\ ops' = ops + 1
  /\ UNCHANGED <<counting, timer, now, tables, prevTables, modal>>

\* handleMove after the destination write: reset the origin
A_MoveReset(c) ==
  /\ run[c].op = "move" /\ run[c].pc = "reset"
  /\ store' = [store EXCEPT ![modal[c].table.id] = Merge(@, ResetData)]
  /\ run' = [run EXCEPT ![c].pc = "lamp_off", ![c].written = @ \cup {modal[c].table.id}]
  /\ issued' = << >>
  /\ cmdCount' = Recount(store', << >>)
  /\ lastExpiry' = NoExpiry
  /\ report' = NoReport
  /\ UNCHANGED <<now, tables, prevTables, modal, ops, counting, timer>>

\* handleMove with a lamp client that throws on a failed request: the handler
\* leaves through its catch block, reports the failure and keeps the modal open
A_MoveLampOffThrows(c) ==
  /\ run[c].op = "move" /\ run[c].pc = "lamp_off"
  /\ \E o \in FetchOutcomes :
       /\ issued' = <<controlLamp(c, "handler", modal[c].table.id, run[c].fromNum, "off", -1, o)>>
       /\ cmdCount' = Recount(store, issued')
       /\ IF LampResult(o).ok
          THEN run' = [run EXCEPT ![c].pc = "lamp_on"] /\ report' = NoReport
          ELSE run' = [run EXCEPT ![c] = Idle] /\ report' = [NoReport EXCEPT ![c] = "error"]
  /\ lastExpiry' = NoExpiry
  /\ UNCHANGED <<store, now, tables, prevTables, modal, ops, counting, timer>>

\* handleMove: await controlLamp(fromNum, 'off')
A_MoveLampOff(c) ==
  /\ run[c].op = "move" /\ run[c].pc = "lamp_off"
  /\ \E o \in FetchOutcomes :
       /\ issued' = <<controlLamp(c, "handler", modal[c].table.id, run[c].fromNum, "off", -1, o)>>
       /\ cmdCount' = Recount(store, issued')
  /\ run' = [run EXCEPT ![c].pc = "lamp_on"]
  /\ lastExpiry' = NoExpiry
  /\ report' = NoReport
  /\ UNCHANGED <<store, now, tables, prevTables, modal, ops, counting, timer>>

\* handleMove: await controlLamp(toNum, 'on', dur), then onClose()
A_MoveLampOn(c) ==
  /\ run[c].op = "move" /\ run[c].pc = "lamp_on"
  /\ \E o \in FetchOutcomes :
       LET dur == RemainingSeconds(run[c].moveData, now)
       IN /\ issued' = <<controlLamp(c, "handler", run[c].to, run[c].toNum, "on", dur, o)>>
          /\ cmdCount' = Recount(store, issued')
  /\ run' = [run EXCEPT ![c] = Idle]
  /\ modal' = [modal EXCEPT ![c] = [kind |-> "none", table |-> NoTable]]
  /\ report' = [NoReport EXCEPT ![c] = "success"]
  /\ lastExpiry' = NoExpiry
  /\ UNCHANGED <<store, now, tables, prevTables, ops, counting, timer>>

\* newData of handleProcessPayment for the table object of the local listing.
\* The start branch calls Date.now() twice, for startTime (clock) and for endTime
\* (clock2); the top-up branch calls it once.
PaymentData(table, d, cust, clock, clock2) ==
  IF StatusOf(table) = "occupied"
  THEN [endTime |-> NumOr(table, "endTime", clock) + d * MsPerMinute,
        duration |-> NumOr(table, "duration", 0) + d]
  ELSE [status |-> "occupied", startTime |-> clock, duration |-> d,
        endTime |-> clock2 + d * MsPerMinute, currentCustomer |-> cust]

\* CheckoutModal.handleProcessPayment with a cart of one table item, up to
\* `await Promise.all`: top-up or start is decided on the local listing
A_Payment(c, t, d, cust) ==
  /\ c \in ClientsA /\ Free(c)
  /\ InList(tables[c], t)
  /\ \E skew \in 0..MaxSkew :
       store' = [store EXCEPT ![t] =
                   Merge(@, PaymentData(Find(tables[c], t), d, cust, now, now + skew))]
  /\ run' = [run EXCEPT ![c] = [op |-> "pay", tid |-> t, index |-> FindIndex(tables[c], t), written |-> {t}]]
  /\ issued' = << >>
  /\ cmdCount' = Recount(store', << >>)
  /\ lastExpiry' = NoExpiry
  /\ report' = NoReport
  /\ ops < MaxOps /\ ops' = ops + 1
  /\ UNCHANGED <<counting, timer, now, tables, prevTables, modal>>

\* handleProcessPayment after the writes: getDoc of the table, lamp on when the
\* stored status is occupied, and the success alert.  The lamp promises are not
\* awaited, so the alert does not depend on their outcome.
A_PaymentLamp(c) ==
  /\ run[c].op = "pay"
  /\ \E o \in FetchOutcomes :
       LET tid == run[c].tid
           tdata == store[tid]
           num == deriveTableNumber(NameOf(tdata), run[c].index)
       IN /\ issued' = IF StatusOf(tdata) = "occupied"
                       THEN <<controlLamp(c, "handler", tid, num, "on",
                                          RemainingSeconds(tdata, now), o)>>
                       ELSE << >>
          /\ cmdCount' = Recount(store, issued')
  /\ run' = [run EXCEPT ![c] = Idle]
  /\ report' = [NoReport EXCEPT ![c] = "success"]
  /\ lastExpiry' = NoExpiry
  /\ UNCHANGED <<store, now, tables, prevTables, modal, ops, counting, timer>>

\* ------------------------------------------------------------ lamp buttons, table settings
\* the endpoint an administrator types into a table's remote field
RemoteUrls == {"http://192.168.100.121/relay"}
RemoteFields == {"remoteOn", "remoteOff", "remoteToggle"}

\* TableManagementModal.handleUpdateRemoteField: updateDoc of one remote field
A_UpdateRemoteField(c, t, field, url) ==
  /\ c \in ClientsA /\ Free(c)
  /\ InList(tables[c], t)
  /\ store' = [store EXCEPT ![t] = Merge(@, [f \in {field} |-> url])]
  /\ issued' = << >>
  /\ lastExpiry' = NoExpiry
  /\ report' = NoReport
  /\ ops < MaxOps /\ ops' = ops + 1
  /\ UNCHANGED <<counting, timer, now, tables, prevTables, modal, run, cmdCount>>

\* onClick of "Tes Lampu" on the card of a table that the listing shows not
\* occupied: controlLampForTable(table, 'toggle')
B_TestLamp(c, t) ==
  /\ c \in ClientsB /\ Free(c)
  /\ InList(tables[c], t) /\ StatusOf(Find(tables[c], t)) # "occupied"
  /\ \E o \in FetchOutcomes :
       issued' = <<controlLampForTable(c, "handler", Find(tables[c], t), "toggle", -1, o)>>
  /\ lastExpiry' = NoExpiry
  /\ report' = NoReport
  /\ UNCHANGED <<store, now, tables, prevTables, modal, run, cmdCount, ops, counting, timer>>

\* onClick of "Matikan Semua Lampu": controlLamp(0, 'off'); the command belongs
\* to no table
B_AllLampsOff(c) ==
  /\ c \in ClientsB /\ Free(c)
  /\ \E o \in FetchOutcomes :
       issued' = <<controlLamp(c, "handler", "", 0, "off", -1, o)>>
  /\ lastExpiry' = NoExpiry
  /\ report' = NoReport
  /\ UNCHANGED <<store, now, tables, prevTables, modal, run, cmdCount, ops, counting, timer>>

\* the channel resolver applied to a name and a list position, and the command
\* its caller sends to the channel it returns:
\* const num = deriveTableNumber(name, idx); controlLamp(num, 'off')
\* The command is logged with the two arguments of the resolver call.
ResolveChannel(c, tableName, index) ==
  /\ \E o \in FetchOutcomes :
       issued' = <<controlLamp(c, "resolver", "", deriveTableNumber(tableName, index),
                               "off", -1, o)
                   @@ [name |-> tableName, index |-> index]>>
  /\ lastExpiry' = NoExpiry
  /\ report' = NoReport
  /\ UNCHANGED <<store, now, tables, prevTables, modal, run, cmdCount, ops, counting, timer>>

\* ------------------------------------------------------------ specification
Next ==
  \/ Tick
  \/ \E c \in Clients : Snapshot(c)
  \/ \E c \in Clients : ExpiryTick(c)
  \/ \E c \in Clients, t \in TableIds, d \in Minutes, cust \in Customers : B_Checkout(c, t, d, cust)
  \/ \E c \in Clients, t \in TableIds : B_StopWrite(c, t)
  \/ \E c \in Clients : B_StopLamp(c)
  \/ \E c \in Clients, t \in TableIds : A_OpenModal(c, "stop", t)
  \/ \E c \in Clients, t \in TableIds : A_OpenModal(c, "move", t)
  \/ \E c \in Clients : A_CloseModal(c)
  \/ \E c \in Clients : A_ConfirmStop(c)
  \/ \E c \in Clients, to \in TableIds : A_MoveStart(c, to)
  \/ \E c \in Clients : A_MoveReset(c)
  \/ \E c \in Clients : A_MoveLampOff(c)
  \/ \E c \in Clients : A_MoveLampOn(c)
  \/ \E c \in Clients, t \in TableIds, d \in Minutes, cust \in Customers : A_Payment(c, t, d, cust)
  \/ \E c \in Clients : A_PaymentLamp(c)

Spec == Init /\ [][Next]_vars

\* one client of app A alone, with the lamp commands per table counted
InitCount == InitWith(TRUE)
NextCount ==
  \/ Tick
  \/ \E c \in ClientsA : Snapshot(c)
  \/ \E c \in ClientsA : ExpiryTick(c)
  \/ \E c \in ClientsA, t \in TableIds : A_OpenModal(c, "stop", t)
  \/ \E c \in ClientsA, t \in TableIds : A_OpenModal(c, "move", t)
  \/ \E c \in ClientsA : A_CloseModal(c)
  \/ \E c \in ClientsA : A_ConfirmStop(c)
  \/ \E c \in ClientsA, to \in TableIds : A_MoveStart(c, to)
  \/ \E c \in ClientsA : A_MoveReset(c)
  \/ \E c \in ClientsA : A_MoveLampOff(c)
  \/ \E c \in ClientsA : A_MoveLampOn(c)
  \/ \E c \in ClientsA, t \in TableIds, d \in Minutes, cust \in Customers : A_Payment(c, t, d, cust)
  \/ \E c \in ClientsA : A_PaymentLamp(c)

SpecCount == InitCount /\ [][NextCount]_vars

\* the lamp client and the channel resolver on their own: the lamp buttons, the
\* remote fields of the table settings, and the resolver on every name and position
NextLamp ==
  \/ \E c \in Clients : Snapshot(c)
  \/ \E c \in ClientsA, t \in TableIds, u \in RemoteUrls :
       A_UpdateRemoteField(c, t, "remoteToggle", u)
  \/ \E c \in ClientsB, t \in TableIds : B_TestLamp(c, t)
  \/ \E c \in ClientsB : B_AllLampsOff(c)
  \/ \E c \in ClientsA, n \in Names, i \in Positions : ResolveChannel(c, n, i)

SpecLamp == Init /\ [][NextLamp]_vars

\* one client of app A with the table settings open: the rental operations and
\* the on and off endpoints of the tables
NextRemote ==
  \/ NextCount
  \/ \E c \in ClientsA, t \in TableIds, f \in {"remoteOn", "remoteOff"}, u \in RemoteUrls :
       A_UpdateRemoteField(c, t, f, u)

SpecRemote == Init /\ [][NextRemote]_vars

\* ------------------------------------------------------------ the interval as a timer
\* the prices an administrator types into a table's price field
Prices == {DefaultCost, 2 * DefaultCost}

\* TableManagementModal.handleUpdatePrice: updateDoc of costPerHour
A_UpdatePrice(c, t, newPrice) ==
  /\ c \in ClientsA /\ Free(c)
  /\ InList(tables[c], t)
  /\ store' = [store EXCEPT ![t] = Merge(@, [costPerHour |-> newPrice])]
  /\ issued' = << >>
  /\ lastExpiry' = NoExpiry
  /\ report' = NoReport
  /\ UNCHANGED <<counting, timer, now, tables, prevTables, modal, run, cmdCount, ops>>

\* no interval callback is due.  A callback that is due runs before anything
\* else happens: before more time passes, before the next click and before
\* the next snapshot is delivered.
NoCallbackDue == \A k \in Clients : timer[k] # "due"

\* half of the interval's period passes on every client.  The clock stops at
\* MaxClock while time goes on: a table that is past its endTime stays so.
HalfPeriod ==
  /\ \E c \in Clients : timer[c] # "untracked"
  /\ NoCallbackDue
  /\ timer' = [c \in Clients |->
                 CASE timer[c] = "created" -> "half"
                   [] timer[c] = "half"    -> "due"
                   [] OTHER                -> timer[c]]
  /\ now' = IF now + IntervalMs \div 2 <= MaxClock THEN now + IntervalMs \div 2 ELSE MaxClock
  /\ issued' = << >>
  /\ lastExpiry' = NoExpiry
  /\ report' = NoReport
  /\ UNCHANGED <<store, tables, prevTables, modal, run, cmdCount, ops, counting>>

\* the setInterval callback of client c, 15 s after the interval was created
\* or last fired: one run over the listing, with or without a table to stop
IntervalFire(c) ==
  /\ timer[c] = "due"
  /\ store' = AutoStop(tables[c], now, store)
  /\ timer' = [timer EXCEPT ![c] = "created"]
  /\ issued' = << >>
  /\ cmdCount' = Recount(store', << >>)
  /\ lastExpiry' = NoExpiry
  /\ report' = NoReport
  /\ UNCHANGED <<now, tables, prevTables, modal, run, ops, counting>>

\* the listener, the payment of the first rental (of table-1) and a price
\* edit (of table-2) of a client whose interval is timed
TimedSnapshot(c) == NoCallbackDue /\ Snapshot(c)
TimedPayment(c, d, cust) == NoCallbackDue /\ ops = 0 /\ A_Payment(c, "table-1", d, cust)
TimedPaymentLamp(c) == NoCallbackDue /\ A_PaymentLamp(c)
TimedUpdatePrice(c, newPrice) == NoCallbackDue /\ A_UpdatePrice(c, "table-2", newPrice)

\* TimedSnapshot(c) by its guard and its effect on the listing alone: enabled
\* in the states where TimedSnapshot(c) is, and taken by the steps it takes
SnapshotDelivered(c) ==
  /\ NoCallbackDue
  /\ tables[c] # Listing(store)
  /\ tables' = [tables EXCEPT ![c] = Listing(store)]

\* TimedPaymentLamp(c) by its guard and its effect on the handler alone
PaymentResumed(c) ==
  /\ NoCallbackDue
  /\ run[c].op = "pay"
  /\ run' = [run EXCEPT ![c] = Idle]

\* one client of app A with its interval timed.  Time passes and a due
\* callback runs (weak fairness); a pending snapshot is delivered and a
\* suspended handler resumes although due callbacks go first again and again
\* (strong fairness).
InitLive == InitState(FALSE, [c \in Clients |-> IF c \in ClientsA THEN "created" ELSE "untracked"])
NextLive ==
  \/ HalfPeriod
  \/ \E c \in ClientsA : TimedSnapshot(c)
  \/ \E c \in ClientsA : IntervalFire(c)
  \/ \E c \in ClientsA, d \in Minutes, cust \in Customers : TimedPayment(c, d, cust)
  \/ \E c \in ClientsA : TimedPaymentLamp(c)
  \/ \E c \in ClientsA, p \in Prices : TimedUpdatePrice(c, p)

SpecLive ==
  /\ InitLive /\ [][NextLive]_vars
  /\ WF_vars(HalfPeriod)
  /\ \A c \in ClientsA :
       SF_tables(SnapshotDelivered(c)) /\ WF_vars(IntervalFire(c)) /\ SF_run(PaymentResumed(c))

\* ------------------------------------------------------------ table management
\* the names an administrator gives an added table; each sorts after the names
\* of the default tables
AddedNames == {"Meja 3", "VIP Room", "VIP 1"}

\* the document handleAddTable writes
AddTableDoc(newTableName, newTableCost, remoteOn, remoteOff, remoteToggle) ==
  [name |-> newTableName, status |-> "available", costPerHour |-> newTableCost,
   remoteOn |-> remoteOn, remoteOff |-> remoteOff, remoteToggle |-> remoteToggle]

\* TableManagementModal.handleAddTable: returns at once on an empty name, else
\* setDoc of a new document
A_AddTable(c, newTableName, newTableCost, remoteOn) ==
  /\ c \in ClientsA /\ Free(c)
  /\ newTableName # ""
  /\ AddedTableId \notin DOMAIN store
  /\ store' = [t \in (DOMAIN store) \cup {AddedTableId} |->
                 IF t = AddedTableId
                 THEN AddTableDoc(newTableName, newTableCost, remoteOn, "", "")
                 ELSE store[t]]
  /\ issued' = << >>
  /\ lastExpiry' = NoExpiry
  /\ report' = NoReport
  /\ UNCHANGED <<counting, timer, now, tables, prevTables, modal, run, cmdCount, ops>>

\* one client of app A that adds a table: every table of the listing is rented
\* and runs out
NextAdmin ==
  \/ Tick
  \/ \E c \in ClientsA : Snapshot(c)
  \/ \E c \in ClientsA : ExpiryTick(c)
  \/ \E c \in ClientsA, n \in AddedNames, u \in {""} \cup RemoteUrls :
       A_AddTable(c, n, DefaultCost, u)
  \/ \E c \in ClientsA, t \in AllTableIds, d \in Minutes, cust \in Customers : A_Payment(c, t, d, cust)
  \/ \E c \in ClientsA : A_PaymentLamp(c)

SpecAdmin == Init /\ [][NextAdmin]_vars

\* ------------------------------------------------------------ store write failures
RECURSIVE AutoStopAborting(_, _, _, _, _)
\* a scan with one try block around the whole loop: the first rejected write
\* ends the scan
AutoStopAborting(view, n, clock, st, failing) ==
  IF n = 0 THEN st
  ELSE LET before == AutoStopAborting(view, n - 1, clock, st, failing)
           t == view[n]
           aborted == \E k \in 1..(n - 1) : Expired(view[k], clock) /\ view[k].id \in failing
       IN IF Expired(t, clock) /\ t.id \notin failing /\ ~aborted
          THEN [before EXCEPT ![t.id] = StopUpdate(@)]
          ELSE before

RECURSIVE AutoStopEach(_, _, _, _, _)
\* the store after the callbacks of tables.forEach for positions 1..n of the
\* listing, when the updateDoc of the tables in `failing` is rejected: each
\* callback has its own try/catch, a rejected write leaves its document as it is
AutoStopEach(view, n, clock, st, failing) ==
  IF n = 0 THEN st
  ELSE LET before == AutoStopEach(view, n - 1, clock, st, failing)
           t == view[n]
       IN IF Expired(t, clock) /\ t.id \notin failing
          THEN [before EXCEPT ![t.id] = StopUpdate(@)]
          ELSE before

\* setInterval callback of client c in which the writes to the tables of
\* `failing` are rejected (console.warn per table)
ExpiryTickFailing(c, failing) ==
  /\ failing # {}
  /\ \A t \in failing : InList(tables[c], t) /\ Expired(Find(tables[c], t), now)
  /\ lastExpiry.client = c => lastExpiry.runs < MaxRuns
  /\ store' = AutoStopEach(tables[c], Len(tables[c]), now, store, failing)
  /\ issued' = << >>
  /\ cmdCount' = Recount(store', << >>)
  /\ lastExpiry' = [client |-> c, runs |-> IF lastExpiry.client = c THEN lastExpiry.runs + 1 ELSE 1,
                    failed |-> failing]
  /\ report' = NoReport
  /\ UNCHANGED <<now, tables, prevTables, modal, run, ops, counting, timer>>

\* handleMove whose destination write is rejected: the await throws into the
\* outer catch (console.error, alert), finally clears `loading`; the modal
\* stays open and nothing was written
A_MoveStartFails(c, to) ==
  /\ modal[c].kind = "move" /\ run[c].op = "idle"
  /\ to \in MoveTargets(c)
  /\ run' = [run EXCEPT ![c] = Idle]
  /\ issued' = << >>
  /\ lastExpiry' = NoExpiry
  /\ report' = [NoReport EXCEPT ![c] = "error"]
  /\ ops < MaxOps /\ ops' = ops + 1
  /\ UNCHANGED <<store, counting, timer, now, tables, prevTables, modal, cmdCount>>

\* handleMove whose origin reset is rejected after the destination write went
\* through: the same catch; the lamp block and onClose are skipped
A_MoveResetFails(c) ==
  /\ run[c].op = "move" /\ run[c].pc = "reset"
  /\ run' = [run EXCEPT ![c] = Idle]
  /\ issued' = << >>
  /\ lastExpiry' = NoExpiry
  /\ report' = [NoReport EXCEPT ![c] = "error"]
  /\ UNCHANGED <<store, now, tables, prevTables, modal, cmdCount, ops, counting, timer>>

\* one client of app A on a store that may reject a write of the auto-stop or
\* of a Move
NextFail ==
  \/ NextCount
  \/ \E c \in ClientsA, failing \in SUBSET TableIds : ExpiryTickFailing(c, failing)
  \/ \E c \in ClientsA, to \in TableIds : A_MoveStartFails(c, to)
  \/ \E c \in ClientsA : A_MoveResetFails(c)

SpecFail == Init /\ [][NextFail]_vars

\* ------------------------------------------------------------ two customers
\* the names a cashier may type into the checkout form
CheckoutCustomers == Customers \cup {"Budi"}

\* one client of app B whose checkouts are made for either customer
NextTopup ==
  \/ Tick
  \/ \E c \in ClientsB : Snapshot(c)
  \/ \E c \in ClientsB : ExpiryTick(c)
  \/ \E c \in ClientsB, t \in TableIds, d \in Minutes, cust \in CheckoutCustomers :
       B_Checkout(c, t, d, cust)
  \/ \E c \in ClientsB, t \in TableIds : B_StopWrite(c, t)
  \/ \E c \in ClientsB : B_StopLamp(c)

SpecTopup == Init /\ [][NextTopup]_vars

\* ------------------------------------------------------------ checkout outcomes
\* the ids doc(collection(db, .../transactions)) hands out, in order
TransactionIds == <<"transaction-1", "transaction-2">>
TransactionIdSet == {TransactionIds[i] : i \in 1..Len(TransactionIds)}
FreshTransaction(st) ==
  TransactionIds[CHOOSE i \in 1..Len(TransactionIds) :
                   /\ TransactionIds[i] \notin DOMAIN st
                   /\ \A k \in 1..(i - 1) : TransactionIds[k] \in DOMAIN st]
\* the transaction record of a cart with one table item
TransactionDoc(t, d, cust) ==
  [type |-> "rental", tableId |-> t, duration |-> d, customerName |-> cust]
\* the store with document id set to data
WithDoc(st, id, data) ==
  [k \in (DOMAIN st) \cup {id} |-> IF k = id THEN data ELSE st[k]]

\* the writes of a checkout that the store may reject
CheckoutWrites == {"transaction", "table"}

\* CheckoutModal.handleProcessPayment with a cart of one table item, up to the
\* settling of `await Promise.all(batchPromises)`.  setDoc of the transaction
\* record and updateDoc of the table are two separate writes, each sent when it
\* is pushed; the store rejects those of `rejected` and applies the others.
\* Promise.all rejects when one of them is rejected: catch, alert "Gagal
\* memproses pembayaran".
A_PaymentSettled(c, t, d, cust, rejected) ==
  /\ c \in ClientsA /\ Free(c)
  /\ InList(tables[c], t)
  /\ rejected \subseteq CheckoutWrites
  /\ \E id \in TransactionIdSet : id \notin DOMAIN store
  /\ LET ref == FreshTransaction(store)
     IN /\ \E skew \in 0..MaxSkew :
             LET newData == PaymentData(Find(tables[c], t), d, cust, now, now + skew)
                 saved   == IF "transaction" \in rejected THEN store
                            ELSE WithDoc(store, ref, TransactionDoc(t, d, cust))
             IN store' = IF "table" \in rejected THEN saved
                         ELSE [saved EXCEPT ![t] = Merge(@, newData)]
        /\ IF rejected = {}
           THEN /\ run' = [run EXCEPT ![c] = [op |-> "pay", tid |-> t,
                                              index |-> FindIndex(tables[c], t),
                                              written |-> {t, ref}]]
                /\ report' = NoReport
           ELSE /\ run' = run
                /\ report' = [NoReport EXCEPT ![c] = "error"]
  /\ issued' = << >>
  /\ cmdCount' = Recount(store', << >>)
  /\ lastExpiry' = NoExpiry
  /\ ops < MaxOps /\ ops' = ops + 1
  /\ UNCHANGED <<counting, timer, now, tables, prevTables, modal>>

\* handleCheckout of app B with a cart of one table item: runTransaction either
\* commits the transaction record and the table update together ("Transaksi
\* Berhasil!") or commits nothing and rejects ("Transaksi Gagal").  An update
\* whose startTime would be undefined throws inside the transaction.
B_CheckoutSettled(c, t, d, cust, committed) ==
  /\ c \in ClientsB /\ Free(c)
  /\ InList(tables[c], t)
  /\ \E id \in TransactionIdSet : id \notin DOMAIN store
  /\ committed => (StatusOf(store[t]) = "available" \/ Has(store[t], "startTime"))
  /\ store' = IF committed
              THEN [WithDoc(store, FreshTransaction(store), TransactionDoc(t, d, cust))
                      EXCEPT ![t] = Merge(@, CheckoutUpdateB(@, d, cust, now))]
              ELSE store
  /\ report' = [NoReport EXCEPT ![c] = IF committed THEN "success" ELSE "error"]
  /\ issued' = << >>
  /\ cmdCount' = Recount(store', << >>)
  /\ lastExpiry' = NoExpiry
  /\ ops < MaxOps /\ ops' = ops + 1
  /\ UNCHANGED <<counting, timer, now, tables, prevTables, modal, run>>

\* the checkouts of both apps on a store that may reject a write
NextCheckout ==
  \/ Tick
  \/ \E c \in Clients : Snapshot(c)
  \/ \E c \in Clients : ExpiryTick(c)
  \/ \E c \in ClientsA, t \in TableIds, d \in Minutes, cust \in Customers,
        rejected \in SUBSET CheckoutWrites : A_PaymentSettled(c, t, d, cust, rejected)
  \/ \E c \in ClientsA : A_PaymentLamp(c)
  \/ \E c \in ClientsB, t \in TableIds, d \in Minutes, cust \in Customers,
        committed \in BOOLEAN : B_CheckoutSettled(c, t, d, cust, committed)

SpecCheckout == Init /\ [][NextCheckout]_vars

\* ------------------------------------------------------------ claims
\* the occupancy fields as a reader sees them: an absent field and a zeroed or
\* empty one both read as cleared
Occupancy(d) ==
  [status |-> StatusOf(d), startTime |-> NumOr(d, "startTime", 0),
   endTime |-> NumOr(d, "endTime", 0), duration |-> NumOr(d, "duration", 0),
   currentCustomer |-> StrOr(d, "currentCustomer", "")]
TimingCleared(d) ==
  ~Truthy(d, "startTime") /\ ~Truthy(d, "endTime") /\ NumOr(d, "duration", 0) = 0
TimingSet(d) ==
  Truthy(d, "startTime") /\ Truthy(d, "endTime") /\ d.endTime > d.startTime

\* the table the local listing of c shows for t
Seen(c, t) == Find(tables[c], t)
\* a checkout step of either app for table t that the user asked for as a start
\* (the listing shows the table not occupied) or as a top-up (it shows it occupied)
CheckoutStep(c, t, d, cust) == A_Payment(c, t, d, cust) \/ B_Checkout(c, t, d, cust)
StartStep(c, t, d, cust) ==
  CheckoutStep(c, t, d, cust) /\ StatusOf(Seen(c, t)) # "occupied"
TopupStep(c, t, d, cust) ==
  CheckoutStep(c, t, d, cust) /\ StatusOf(Seen(c, t)) = "occupied"
\* a manual stop step of either app for table t
StopStep(c, t) == (A_ConfirmStop(c) /\ modal[c].table.id = t) \/ B_StopWrite(c, t)

\* C1: in every reachable state each table is occupied exactly when startTime
\* and endTime are set with endTime > startTime, and available exactly when its
\* timing fields are absent or zero and currentCustomer is empty.
C1_OccupancyInvariant ==
  \A t \in TableIds :
    /\ StatusOf(store[t]) = "occupied" <=> TimingSet(store[t])
    /\ StatusOf(store[t]) = "available" <=>
         (TimingCleared(store[t]) /\ StrOr(store[t], "currentCustomer", "") = "")

\* C2: a Start for a table that is occupied in the store, and a Stop or a Top-up
\* for a table that is available in the store, writes nothing to the store and
\* leaves no handler behind that would issue a lamp command.
C2_InvalidTransitionRejected ==
  [][\A c \in Clients, t \in TableIds :
       (\/ /\ StatusOf(store[t]) = "occupied"
            /\ \E d \in Minutes, cust \in Customers : StartStep(c, t, d, cust)
        \/ /\ StatusOf(store[t]) = "available"
            /\ \/ StopStep(c, t)
               \/ \E d \in Minutes, cust \in Customers : TopupStep(c, t, d, cust))
       => (store' = store /\ run'[c] = Idle)]_vars

\* C3: for every change of a table's status exactly one lamp command announcing
\* the new status is issued for that table, the handler's and the listeners'
\* commands counted together; so never more than one.
C3_OneLampCommandPerTransition == \A t \in TableIds : cmdCount[t] <= 1

\* C4: a Move whose destination is not available in the store, or whose
\* destination is its origin, makes no store write.
C4_MoveRejectedWhenInvalid ==
  [][\A c \in ClientsA, to \in TableIds :
       (A_MoveStart(c, to) /\ (StatusOf(store[to]) # "available" \/ to = modal[c].table.id))
       => store' = store]_vars

\* C5: the destination write of a Move of an active rental leaves the destination
\* occupied with the origin's stored startTime, endTime, duration and
\* currentCustomer, and the origin reset leaves the origin available with its
\* timing fields cleared.
C5_MovePreservesRental ==
  [][\A c \in ClientsA :
       /\ \A to \in TableIds :
            (A_MoveStart(c, to) /\ StatusOf(store[modal[c].table.id]) = "occupied")
            => Occupancy(store'[to]) = Occupancy(store[modal[c].table.id])
       /\ A_MoveReset(c)
            => (StatusOf(store'[modal[c].table.id]) = "available"
                /\ TimingCleared(store'[modal[c].table.id]))]_vars

\* C6: a Start of d minutes on a table that is available in the store leaves it
\* occupied with endTime - startTime = d * 60000 and duration = d.
C6_StartRoundTrip ==
  [][\A c \in Clients, t \in TableIds, d \in Minutes, cust \in Customers :
       (StartStep(c, t, d, cust) /\ StatusOf(store[t]) = "available")
       => /\ StatusOf(store'[t]) = "occupied"
          /\ TimingSet(store'[t])
          /\ store'[t].endTime - store'[t].startTime = d * 60000
          /\ store'[t].duration = d]_vars

\* C7: a Top-up of e minutes on an occupied table adds exactly e * 60000 to the
\* stored endTime and e to the stored duration.
C7_TopupAdditive ==
  [][\A c \in Clients, t \in TableIds, e \in Minutes, cust \in Customers :
       (TopupStep(c, t, e, cust) /\ StatusOf(store[t]) = "occupied" /\ TimingSet(store[t]))
       => /\ Truthy(store'[t], "endTime")
          /\ store'[t].endTime = store[t].endTime + e * 60000
          /\ NumOr(store'[t], "duration", 0) = NumOr(store[t], "duration", 0) + e]_vars

\* C8: a run of the auto-stop check leaves every table it finds occupied with
\* endTime in the past available with its timing fields cleared, and a second
\* run right after the first changes no field of any table.
C8_ExpiryIdempotent ==
  [][\A c \in Clients :
       ExpiryTick(c) =>
         /\ \A t \in TableIds :
              (InList(tables[c], t) /\ Expired(Seen(c, t), now))
              => (StatusOf(store'[t]) = "available" /\ TimingCleared(store'[t])
                  /\ ~Has(store'[t], "currentCustomer"))
         /\ lastExpiry.client = c => store' = store]_vars
\* the check of a1 has run twice in succession on a table it saw expired
C8_Witness ==
  /\ lastExpiry = [client |-> "a1", runs |-> 2]
  /\ \E t \in TableIds :
       /\ InList(tables["a1"], t) /\ Expired(Seen("a1", t), now)
       /\ StatusOf(store[t]) = "available"

\* C9: the auto-stop write changes no occupancy field of a table whose stored
\* record is not an occupied record with endTime in the past.
C9_MonitorNeverCorrupts ==
  [][\A c \in Clients :
       ExpiryTick(c) =>
         \A t \in TableIds :
           ~Expired(store[t], now) => Occupancy(store'[t]) = Occupancy(store[t])]_vars

\* the handler of c that issues a lamp command in this step gets a failure back
LampFailed(c) ==
  \E i \in 1..Len(issued') :
    /\ issued'[i].client = c /\ issued'[i].src = "handler"
    /\ ~issued'[i].result.ok
\* the tables the suspended handler of c writes in all
HandlerWrites(c) ==
  CASE run[c].op = "move"   -> {run[c].to, modal[c].table.id}
    [] run[c].op = "pay"    -> {run[c].tid}
    [] run[c].op = "b_stop" -> {run[c].table.id}
    [] OTHER                -> {}

\* C10: when a lamp command of a Start, Stop or Move handler fails (timeout,
\* network error, non-success status), the handler has already made all of its
\* store writes, the step changes nothing in the store, the handler goes on
\* with its next step and ends reporting success.
C10_LampFailureDoesNotBlock ==
  [][\A c \in Clients :
       LampFailed(c) =>
         /\ store' = store
         /\ run[c].written = HandlerWrites(c)
         /\ run[c].op = "move" /\ run[c].pc = "lamp_off"
              => (run'[c].op = "move" /\ run'[c].pc = "lamp_on")
         /\ run'[c] = Idle => report'[c] = "success"]_vars
\* a Move of a1 from table-1 to table-2, the second rental operation of the
\* behaviour, has ended with success although its lamp-on command failed; both
\* of its writes are in the store
C10_Witness ==
  /\ ops = 2
  /\ Len(issued) = 1
  /\ issued[1].client = "a1" /\ issued[1].src = "handler"
  /\ issued[1].table = "table-2" /\ issued[1].url.action = "on"
  /\ issued[1].result = LampResult("network_error")
  /\ report["a1"] = "success"
  /\ StatusOf(store["table-2"]) = "occupied" /\ TimingSet(store["table-2"])
  /\ StatusOf(store["table-1"]) = "available"
  /\ Has(store["table-1"], "endTime") /\ store["table-1"].endTime = 0

\* C11: the lamp client returns a value for every outcome of its request: a
\* request aborted by the timeout gives ok = FALSE and error = "timeout", any
\* other rejection ok = FALSE and the stringified cause, a non-success response
\* ok = FALSE and its status code; so every command a caller gets an answer for
\* carries a returned value.
C11_LampClientNeverRaises ==
  /\ \A o \in FetchOutcomes :
       LET res == Fetch(o)
           r   == LampResult(o)
       IN /\ DOMAIN r \subseteq {"ok", "status", "error"} /\ "ok" \in DOMAIN r
          /\ (res.settled = "rejected" /\ res.name = "AbortError")
               => (~r.ok /\ Has(r, "error") /\ r.error = "timeout")
          /\ (res.settled = "rejected" /\ res.name # "AbortError")
               => (~r.ok /\ Has(r, "error") /\ r.error = res.string)
          /\ (res.settled = "fulfilled" /\ ~res.ok)
               => (~r.ok /\ Has(r, "status") /\ r.status = res.status)
  /\ \A i \in 1..Len(issued) :
       Has(issued[i], "result") => "ok" \in DOMAIN issued[i].result
\* the test button's toggle request to a configured endpoint was aborted by the
\* timeout and the client returned the timeout value
C11_Witness ==
  /\ Len(issued) = 1
  /\ issued[1].src = "handler" /\ issued[1].url.action = "toggle"
  /\ Has(issued[1].url, "href")
  /\ issued[1].result = [ok |-> FALSE, error |-> "timeout"]

\* C12: the channel resolver returns position + 1 for an absent name and for a
\* name without a decimal digit, and otherwise the number spelled by the first
\* maximal run of digits of the name, whatever the position ("Meja 3" at 0
\* gives 3, "VIP Room" at 2 gives 3).
C12_ResolverDigitsOrPosition ==
  \A k \in 1..Len(issued) :
    issued[k].src = "resolver" =>
      LET n == issued[k].name
          i == issued[k].index
          firstRun == [m \in Names \ {"", "VIP Room"} |->
                         CASE m = "Meja 1"  -> 1
                           [] m = "Meja 2"  -> 2
                           [] m = "Meja 3"  -> 3
                           [] m = "Meja 0"  -> 0
                           [] m = "Meja 10" -> 10
                           [] m = "A12B7"   -> 12
                           [] m = "7up"     -> 7]
      IN /\ issued[k].url.num = IF n \in DOMAIN firstRun THEN firstRun[n] ELSE i + 1
         /\ (n = "Meja 3" /\ i = 0) => issued[k].url.num = 3
         /\ (n = "VIP Room" /\ i = 2) => issued[k].url.num = 3
\* the resolver was applied to "A12B7" at position 2 and its caller sent a
\* command to channel 12: a run of two digits that is neither the whole name
\* nor its last digits, and not position + 1
C12_Witness ==
  /\ Len(issued) = 1
  /\ issued[1].src = "resolver"
  /\ issued[1].name = "A12B7" /\ issued[1].index = 2
  /\ issued[1].url.num = 12

\* C13: every lamp command the application issues to a numeric channel carries
\* a channel of at least 1, whatever name and position the channel was
\* resolved from.
C13_ChannelAtLeastOne ==
  \A i \in 1..Len(issued) :
    Has(issued[i].url, "num") => issued[i].url.num >= 1

\* C14: every step that takes a stored table from occupied to available (a
\* manual Stop, the auto-stop, the origin reset of a Move) leaves the record
\* without the fields startTime and endTime.
C14_TimingRemovedOnRelease ==
  [][\A t \in TableIds :
       (StatusOf(store[t]) = "occupied" /\ StatusOf(store'[t]) = "available")
         => (~Has(store'[t], "startTime") /\ ~Has(store'[t], "endTime"))]_vars

\* C15: a lamp command with action a for a table whose stored record, and the
\* sender's listing of it, hold an explicit endpoint for a goes to that
\* endpoint and not to the numeric channel, whoever issues it (listener, Start,
\* Stop, Move).
C15_ExplicitEndpointOverrides ==
  \A i \in 1..Len(issued) :
    LET cmd == issued[i]
    IN (/\ cmd.table \in TableIds
        /\ ExplicitUrl(store[cmd.table], cmd.url.action) # ""
        /\ InList(tables[cmd.client], cmd.table)
        /\ ExplicitUrl(Find(tables[cmd.client], cmd.table), cmd.url.action)
             = ExplicitUrl(store[cmd.table], cmd.url.action))
       => (/\ Has(cmd.url, "href")
           /\ cmd.url.href = ExplicitUrl(store[cmd.table], cmd.url.action))

\* C16: in every quiescent state (every client's listing equals the stored
\* listing and no handler is between two of its steps) the last lamp command
\* issued for a table is on if the table is occupied and off if it is
\* available. The commands of the step that led to the state are the last
\* ones issued; each of them, when it is the last for its table, must agree
\* with the stored status.
C16_LampAgreesWhenQuiescent ==
  (\A c \in Clients : tables[c] = Listing(store) /\ run[c] = Idle)
    => \A i \in 1..Len(issued) :
         (/\ issued[i].table \in TableIds
          /\ issued[i].url.action \in {"on", "off"}
          /\ \A j \in (i + 1)..Len(issued) : issued[j].table # issued[i].table)
         => (issued[i].url.action = "on") = (StatusOf(store[issued[i].table]) = "occupied")

\* C17: every table that is stored occupied with endTime <= now is eventually
\* stored available, in every behaviour in which time passes, snapshots are
\* delivered and due interval callbacks run, however the snapshots fall
\* between the callbacks.
C17_ExpiredEventuallyReleased ==
  \A t \in TableIds :
    Expired(store[t], now) ~> (StatusOf(store[t]) = "available")

\* C18: in a run of the auto-stop callback in which the write to some tables
\* is rejected, every other table that the listing shows occupied and past
\* its endTime still gets its Stop write in that same run.
C18_ExpiryFailureIsolated ==
  [][Has(lastExpiry', "failed") =>
       LET c == lastExpiry'.client
       IN \A t \in TableIds :
            IF InList(tables[c], t) /\ Expired(Find(tables[c], t), now)
               /\ t \notin lastExpiry'.failed
            THEN store'[t] = StopUpdate(store[t])
            ELSE store'[t] = store[t]]_vars
\* the write to table-1 was rejected and table-1 is still occupied past its
\* endTime, while table-2, which the same listing shows occupied and expired,
\* was stopped by the same run
C18_Witness ==
  /\ Has(lastExpiry, "failed") /\ lastExpiry.failed = {"table-1"}
  /\ Expired(store["table-1"], now)
  /\ InList(tables["a1"], "table-2") /\ Expired(Find(tables["a1"], "table-2"), now)
  /\ StatusOf(store["table-2"]) = "available"
  /\ ~Has(store["table-2"], "endTime") /\ ~Has(store["table-2"], "startTime")

\* C19: in a Move between two different tables the destination write is
\* applied while the origin is left as it is, and the origin reset is issued
\* only after the destination was written and leaves the destination as it
\* is; so between the two writes the rental is recorded on both tables, and
\* after them on the destination, never on neither.
C19_DestinationBeforeOrigin ==
  [][\A c \in ClientsA :
       LET from == modal[c].table.id
       IN /\ \A to \in TableIds \ {from} :
               A_MoveStart(c, to) =>
                 /\ store'[from] = store[from]
                 /\ StatusOf(store'[to]) = "occupied"
                 /\ run'[c].pc = "reset" /\ run'[c].written = {to}
                 /\ StatusOf(store[from]) = "occupied" =>
                      (StatusOf(store'[from]) = "occupied" /\ StatusOf(store'[to]) = "occupied")
          /\ (A_MoveReset(c) /\ run[c].to # from) =>
               /\ run[c].to \in run[c].written
               /\ from \notin run[c].written
               /\ store'[run[c].to] = store[run[c].to]
               /\ StatusOf(store[run[c].to]) = "occupied" =>
                    StatusOf(store'[run[c].to]) = "occupied"]_vars
\* a Move from table-1 to table-2 between its two writes: the destination is
\* written, the reset is still to come, and both tables hold the rental
C19_Witness ==
  /\ run["a1"].op = "move" /\ run["a1"].pc = "reset"
  /\ modal["a1"].table.id = "table-1" /\ run["a1"].to = "table-2"
  /\ run["a1"].written = {"table-2"}
  /\ StatusOf(store["table-1"]) = "occupied" /\ StatusOf(store["table-2"]) = "occupied"
  /\ Occupancy(store["table-1"]) = Occupancy(store["table-2"])

\* C20: a rejected write of a Move is neither retried nor compensated.  When
\* the destination write is rejected no table is changed and no lamp command
\* is issued; when the origin reset is rejected after the destination write,
\* both tables are left occupied with the same startTime, endTime, duration
\* and currentCustomer; in both cases the handler ends there, writes nothing
\* more and reports the failure.
C20_MoveFailureLeftAsIs ==
  [][\A c \in ClientsA :
       /\ \A to \in TableIds :
            A_MoveStartFails(c, to) =>
              /\ store' = store /\ issued' = << >>
              /\ run'[c] = Idle /\ report'[c] = "error"
       /\ A_MoveResetFails(c) =>
            /\ store' = store /\ issued' = << >>
            /\ run'[c] = Idle /\ report'[c] = "error"
            /\ StatusOf(store'[modal[c].table.id]) = "occupied"
            /\ StatusOf(store'[run[c].to]) = "occupied"
            /\ Occupancy(store'[modal[c].table.id]) = Occupancy(store'[run[c].to])]_vars

StopFields == {"status", "startTime", "endTime", "duration", "currentCustomer"}
SameStopRecord(d1, d2) ==
  \A f \in StopFields : Has(d1, f) = Has(d2, f) /\ (Has(d1, f) => d1[f] = d2[f])

\* C22: the manual Stop of app A applies the same store mutation as the
\* auto-expiry Stop: after a confirmed Stop the table's record has the same
\* presence and values of status, startTime, endTime, duration and
\* currentCustomer as the auto-expiry's update of the same record would give.
C22_ManualStopSameAsAutoStop ==
  [][\A c \in ClientsA :
       A_ConfirmStop(c) =>
         SameStopRecord(store'[modal[c].table.id], StopUpdate(store[modal[c].table.id]))]_vars

\* the commands of one step that go to table t with the given action
CmdsFor(cmds, t, action) ==
  {i \in DOMAIN cmds : cmds[i].table = t /\ cmds[i].url.action = action}
OccupiedIn(list, t) == InList(list, t) /\ StatusOf(Find(list, t)) = "occupied"

\* C23: the listener derives its lamp commands only from the difference between
\* its previous listing and the new one.  The previous listing is empty when the
\* client subscribes and is replaced by the new listing at every snapshot; a
\* snapshot sends one on command for a table exactly when the table is occupied
\* in the new listing and was absent from or not occupied in the previous one,
\* one off command exactly when it was occupied before and is not now, and
\* nothing for a table whose status did not change.
C23_ListenerDiffsListings ==
  /\ \A c \in Clients : prevTables[c] = << >>
  /\ [][\A c \in Clients :
         (tables'[c] # tables[c] /\ Snapshot(c)) =>
           /\ prevTables'[c] = Listing(store)
           /\ \A i \in DOMAIN issued' : issued'[i].src = "listener" /\ issued'[i].client = c
           /\ \A t \in AllTableIds :
                LET wasOn == OccupiedIn(prevTables[c], t)
                    isOn  == OccupiedIn(Listing(store), t)
                    on    == CmdsFor(issued', t, "on")
                    off   == CmdsFor(issued', t, "off")
                IN /\ Cardinality(on) = (IF isOn /\ ~wasOn THEN 1 ELSE 0)
                   /\ Cardinality(off) = (IF wasOn /\ ~isOn THEN 1 ELSE 0)]_vars
\* a snapshot has just made the listener switch a lamp off
C23_Witness ==
  \E i \in DOMAIN issued : issued[i].src = "listener" /\ issued[i].url.action = "off"

SecondsPerMinute == 60

\* the on command cmd, issued at the clock value `clock`, carries the seconds
\* that remain until the endTime of the record rec, rounded up: the least number
\* of whole seconds that reaches endTime, which is d * 60 when exactly d minutes
\* remain; a command with no time left carries no duration (-1)
CarriesRemaining(cmd, rec, clock) ==
  LET ms == IF Truthy(rec, "endTime") THEN rec.endTime - clock ELSE 0
      dur == cmd.url.duration
  IN /\ dur = -1 \/ dur > 0
     /\ IF ms > 0
        THEN /\ dur * MsPerSecond >= ms /\ (dur - 1) * MsPerSecond < ms
             /\ \A d \in Minutes : ms = d * MsPerMinute => dur = d * SecondsPerMinute
        ELSE dur = -1

HasDuration(cmd) == cmd.url.duration # -1
\* cmd was built from the requested auto-off value `requested` (-1: none passed)
DurationIffPositive(cmd, requested) ==
  /\ HasDuration(cmd) <=> requested > 0
  /\ HasDuration(cmd) => cmd.url.duration = requested

\* C25: a lamp request carries a duration parameter exactly when the requested
\* auto-off value is greater than zero, and then carries that value: an on
\* command for a table whose time has run out or that has no endTime, and every
\* off command, is sent without a duration.
C25_DurationOnlyWhenPositive ==
  [][\A c \in ClientsA :
       /\ (tables'[c] # tables[c] /\ Snapshot(c)) =>
            \A i \in DOMAIN issued' :
              DurationIffPositive(issued'[i],
                IF issued'[i].url.action = "on"
                THEN RemainingSeconds(store[issued'[i].table], now) ELSE -1)
       /\ (run[c].op = "pay" /\ A_PaymentLamp(c)) =>
            \A i \in DOMAIN issued' :
              DurationIffPositive(issued'[i], RemainingSeconds(store[run[c].tid], now))
       /\ (run[c].op = "move" /\ A_MoveLampOff(c)) =>
            \A i \in DOMAIN issued' : DurationIffPositive(issued'[i], -1)
       /\ (run[c].op = "move" /\ A_MoveLampOn(c)) =>
            \A i \in DOMAIN issued' :
              DurationIffPositive(issued'[i], RemainingSeconds(run[c].moveData, now))]_vars
\* an on command has just gone out, without a duration, for an occupied table
\* whose time has run out
C25_Witness ==
  \E i \in DOMAIN issued :
    /\ issued[i].url.action = "on" /\ ~HasDuration(issued[i])
    /\ StatusOf(store[issued[i].table]) = "occupied"
    /\ RemainingSeconds(store[issued[i].table], now) = 0

\* field f is present in both records with one value, or absent from both
SameField(d1, d2, f) == Has(d1, f) = Has(d2, f) /\ (Has(d1, f) => d1[f] = d2[f])

OccupancyFields == StopFields
\* from this state to the next, the tables of `targets` keep every field that is
\* not an occupancy field and every other table keeps its whole record
RentalFrame(targets) ==
  /\ DOMAIN store' = DOMAIN store
  /\ \A t \in DOMAIN store :
       IF t \in targets
       THEN \A f \in ((DOMAIN store[t]) \cup (DOMAIN store'[t])) \ OccupancyFields :
              SameField(store[t], store'[t], f)
       ELSE store'[t] = store[t]
\* the tables an interval run of client c stops
ExpiredSeen(c) ==
  {t \in DOMAIN store : InList(tables[c], t) /\ Expired(Find(tables[c], t), now)}

\* C27: Start, Top-up, Stop, auto-expiry and both writes of a Move change only
\* the occupancy fields of the tables they target: the name, the price and the
\* lamp endpoints of those tables stay as they were, and the record of every
\* other table is unchanged.
C27_RentalOpsFrame ==
  [][store' # store =>
       \A c \in ClientsA :
         /\ \A t \in TableIds, d \in Minutes, cust \in Customers :
              A_Payment(c, t, d, cust) => RentalFrame({t})
         /\ A_ConfirmStop(c) => RentalFrame({modal[c].table.id})
         /\ ExpiryTick(c) => RentalFrame(ExpiredSeen(c))
         /\ \A to \in TableIds : A_MoveStart(c, to) => RentalFrame({to})
         /\ A_MoveReset(c) => RentalFrame({modal[c].table.id})]_vars
\* a table with an explicit on endpoint has been rented and released and still
\* has its endpoint
C27_Witness ==
  \E t \in TableIds :
    /\ StrOr(store[t], "remoteOn", "") # ""
    /\ StatusOf(store[t]) = "available" /\ Has(store[t], "duration")

\* C28: a Move never creates a rental.  Its destination write makes the
\* destination occupied only if the origin is still occupied in the store at
\* that moment, whatever Stop, expiry or other client's write came in between
\* the opening of the Move dialog and the write; with the origin reset that
\* follows, the number of occupied tables is then no greater after the Move
\* than before it.
C28_MoveNeverCreatesRental ==
  [][\A c \in ClientsA, to \in TableIds :
       (modal[c].kind = "move" /\ A_MoveStart(c, to)) =>
         (StatusOf(store'[to]) = "occupied" =>
            StatusOf(store[modal[c].table.id]) = "occupied")]_vars

\* the channel the listener resolves for the table at position i (1-based) of a listing
ChannelAt(list, i) == deriveTableNumber(NameOf(list[i]), i - 1)

\* C29: two different tables of one listing always resolve to different lamp
\* channel numbers.
C29_DistinctChannels ==
  \A c \in Clients : \A i, j \in 1..Len(tables[c]) :
    i # j => ChannelAt(tables[c], i) # ChannelAt(tables[c], j)

\* C30: a checkout with a table item is all-or-nothing.  When it reports a
\* failure, no table was started or topped up and no transaction record was
\* saved: the store is as it was.  When it reports success, the transaction
\* record was saved and the table update was applied.
C30_CheckoutAllOrNothing ==
  [][\A c \in Clients, t \in TableIds, d \in Minutes, cust \in Customers :
       /\ \A rejected \in SUBSET CheckoutWrites :
            (report'[c] = "error" /\ A_PaymentSettled(c, t, d, cust, rejected)) =>
              store' = store
       /\ (report'[c] = "success" /\ run[c].op = "pay" /\ A_PaymentLamp(c)) =>
            \E ref \in TransactionIdSet :
              run[c].written = {run[c].tid, ref} /\ ref \in DOMAIN store
       /\ \A committed \in BOOLEAN :
            B_CheckoutSettled(c, t, d, cust, committed) =>
              /\ report'[c] = "error" => store' = store
              /\ report'[c] = "success" =>
                   /\ store'[t] # store[t]
                   /\ \E ref \in TransactionIdSet :
                        ref \in DOMAIN store' /\ ref \notin DOMAIN store]_vars

====
